---- MODULE Spec2Model ----
(***************************************************************************)
(* Model of the Soundscape tile server (src/Docker/gentiles.py): the       *)
(* metrics registry (StatCounter, StatHistogram), the canonical tile       *)
(* encoder (json.dumps with sort_keys), the pooled tile handler with its   *)
(* suspension points, the error middleware, and the alive and metrics      *)
(* handlers.                                                               *)
(*                                                                         *)
(* Numbers are exact.  Query times are counted in tenths of a second, so   *)
(* the 0.20 s bucket width of tile_querytime is 2; binary floating point   *)
(* rounding of Python floats is not modelled.                              *)
(***************************************************************************)
EXTENDS Integers, Sequences, FiniteSets, TLC

(***************************************************************************)
(* Bounds of the model.                                                    *)
(***************************************************************************)
\* requests (tile, alive, metrics) that arrive in one behaviour
MaxRequests == 2
\* connections the pool may hold (maxsize of aiopg.create_pool)
PoolMaxSize == 1
\* HistSpec: largest bucket width, most buckets, samples per behaviour
MaxInterval == 2
MaxBuckets == 3
MaxSamples == 3
MaxRows == 2
MaxEncodes == 2

(***************************************************************************)
(* Program constants.                                                      *)
(***************************************************************************)
zoom_default == 16
timeout_set == "set statement_timeout=10000"
tile_query == "SELECT * from soundscape_tile(%(zoom)s, %(tile_x)s, %(tile_y)s)"

\* tile_querytime = StatHistogram(..., 0.20, 20), in tenths of a second
querytime_interval == 2
querytime_bucket_count == 20
\* tile_size = StatHistogram(..., 1024 * 8, 32)
tile_size_interval == 1024 * 8
tile_size_bucket_count == 32

\* Python's None
None == [t |-> "None"]

(***************************************************************************)
(* StatCounter                                                             *)
(***************************************************************************)
CounterVars ==
    <<"tilesrv_metrics_scraped", "tilesrv_aliveprobe", "tilesrv_start",
      "tile_served", "tile_exception", "tile_queryfail">>

HistogramVars == <<"tile_querytime", "tile_size">>

\* the registration order of the module-level list `metrics`
metrics == CounterVars \o HistogramVars

Range(s) == {s[i] : i \in DOMAIN s}

\* the name and help text each metric is constructed with
MetricName(m) ==
    CASE m = "tilesrv_metrics_scraped" -> "tilesrv_metrics_scraped"
      [] m = "tilesrv_aliveprobe" -> "tilesrv_aliveprobe_count"
      [] m = "tilesrv_start" -> "tilesrv_start_count"
      [] m = "tile_served" -> "tile_served_count"
      [] m = "tile_exception" -> "tile_exception_count"
      [] m = "tile_queryfail" -> "tile_queryfail_count"
      [] m = "tile_querytime" -> "tile_querytime_seconds"
      [] m = "tile_size" -> "tile_size"

MetricHelp(m) ==
    CASE m = "tilesrv_metrics_scraped" -> "count of times scraped"
      [] m = "tilesrv_aliveprobe" -> "count of times probe for aliveness"
      [] m = "tilesrv_start" -> "count of times tile server started"
      [] m = "tile_served" -> "count of tiles served"
      [] m = "tile_exception" -> "count of tiles requests that ended in exception"
      [] m = "tile_queryfail" -> "count of tiles requests that experienced query failure"
      [] m = "tile_querytime" -> "histogram of tile query performance"
      [] m = "tile_size" -> "histogram of tile size"

\* StatCounter.__init__: value = 0
NewCounters == [m \in Range(CounterVars) |-> 0]

\* StatCounter.inc on the counter m of the counter table c
Inc(c, m) == [c EXCEPT ![m] = @ + 1]

\* StatCounter.report, as the lines of its text (each ends with "\n")
CounterReport(m, value) ==
    << "# HELP " \o MetricName(m) \o " " \o MetricHelp(m),
       "# TYPE " \o MetricName(m) \o " counter",
       MetricName(m) \o " " \o ToString(value) >>

(***************************************************************************)
(* StatHistogram.  scale is the number of model units in one unit of the   *)
(* source (10 for a histogram of seconds counted in tenths, else 1).       *)
(***************************************************************************)
NewHistogram(interval, bucket_count, scale) ==
    [ sum |-> 0,
      interval |-> interval,
      buckets |-> [i \in 1..bucket_count |-> 0],
      count |-> 0,
      bucket_count |-> bucket_count,
      max_value |-> bucket_count * interval,
      scale |-> scale ]

\* buckets[i] of the Python list, i from 0
Bucket(h, i) == h.buckets[i + 1]

\* Python list indexing: a negative index counts from the end
PyIndex(index, len) == IF index < 0 THEN index + len ELSE index

\* mutant: a value on a bucket boundary is not moved to the lower bucket
HistSampleBoundaryUp(h, value) ==
    LET h1 == [h EXCEPT !.count = @ + 1, !.sum = @ + value]
    IN  IF value <= h.max_value
        THEN LET at == PyIndex(value \div h.interval, h.bucket_count)
             IN  IF at < h.bucket_count
                 THEN [h1 EXCEPT !.buckets[at + 1] = @ + 1]
                 ELSE h1
        ELSE h1

\* mutant: a value beyond max_value is dropped before it is counted
HistSampleDropsOverflow(h, value) ==
    IF value <= h.max_value
    THEN LET trunc == value \div h.interval
             index == IF trunc * h.interval = value THEN trunc - 1 ELSE trunc
             at == PyIndex(index, h.bucket_count)
         IN  [h EXCEPT !.count = @ + 1, !.sum = @ + value,
                       !.buckets[at + 1] = @ + 1]
    ELSE h

\* StatHistogram.sample for value >= 0
HistSample(h, value) ==
    LET h1 == [h EXCEPT !.count = @ + 1, !.sum = @ + value]
    IN  IF value <= h.max_value
        THEN LET trunc == value \div h.interval
                 index == IF trunc * h.interval = value THEN trunc - 1 ELSE trunc
                 at == PyIndex(index, h.bucket_count)
             IN  [h1 EXCEPT !.buckets[at + 1] = @ + 1]
        ELSE h1

\* str() of a number of the source that is n model units
FormatNumber(scale, n) ==
    IF scale = 1 THEN ToString(n)
    ELSE ToString(n \div scale) \o "." \o ToString(n % scale)

\* StatHistogram.report, as the lines of its text
HistogramReport(m, h) ==
    << "# HELP " \o MetricName(m) \o " " \o MetricHelp(m),
       "# TYPE " \o MetricName(m) \o " histogram" >>
    \o [ i \in 1..h.bucket_count |->
           MetricName(m) \o "_bucket{le=\"" \o FormatNumber(h.scale, i * h.interval)
             \o "\"} " \o ToString(h.buckets[i]) ]
    \o << MetricName(m) \o "_bucket{le=\"+Inf\"} " \o ToString(h.count),
          MetricName(m) \o "_sum " \o FormatNumber(h.scale, h.sum),
          MetricName(m) \o "_count " \o ToString(h.count) >>

(***************************************************************************)
(* json.dumps(obj, sort_keys=True).  A Python value is a tagged record:    *)
(* int, str, list (a sequence of values) or dict (a sequence of <<key,     *)
(* value>> pairs in insertion order).  The rows of the store hold          *)
(* integers and plain strings, which the encoder accepts and writes        *)
(* without escapes.                                                        *)
(***************************************************************************)
PyInt(n) == [t |-> "int", v |-> n]
PyStr(s) == [t |-> "str", v |-> s]
PyList(s) == [t |-> "list", v |-> s]
PyDict(s) == [t |-> "dict", v |-> s]
\* a text as the sequence of its lines
PyLines(s) == [t |-> "lines", v |-> s]

\* the keys that occur, in the order Python compares strings
KeyOrder == <<"features", "id", "name", "type">>
KeyRank(k) == CHOOSE i \in DOMAIN KeyOrder : KeyOrder[i] = k

\* mutant: json.dumps without sort_keys writes the items in insertion order
SortItemsKeepsOrder(items) == items

\* sorted(items) by key; the keys of a dict are distinct
SortItems(items) ==
    [ i \in 1..Len(items) |->
        items[ CHOOSE j \in 1..Len(items) :
                 Cardinality({ k \in 1..Len(items) :
                                 KeyRank(items[k][1]) < KeyRank(items[j][1]) }) = i - 1 ] ]

RECURSIVE Join(_, _)
Join(strs, sep) ==
    IF Len(strs) = 0 THEN ""
    ELSE IF Len(strs) = 1 THEN strs[1]
    ELSE strs[1] \o sep \o Join(Tail(strs), sep)

RECURSIVE JsonDumps(_)
JsonDumps(v) ==
    CASE v.t = "int" -> ToString(v.v)
      [] v.t = "str" -> "\"" \o v.v \o "\""
      [] v.t = "list" ->
           "[" \o Join([i \in 1..Len(v.v) |-> JsonDumps(v.v[i])], ", ") \o "]"
      [] v.t = "dict" ->
           LET items == SortItems(v.v)
           IN  "{" \o Join([i \in 1..Len(items) |->
                              "\"" \o items[i][1] \o "\": " \o JsonDumps(items[i][2])],
                           ", ") \o "}"

(***************************************************************************)
(* The store: soundscape_tile(zoom, tile_x, tile_y) as the rows a          *)
(* NamedTupleCursor returns, each row a sequence of <<column, value>>      *)
(* pairs in column order.                                                  *)
(***************************************************************************)
Zooms == {15, zoom_default}
TileCoords == {<<0, 0>>, <<100, 200>>, <<200, 100>>}
\* time.perf_counter() differences the requests may see, in tenths of a second
ElapsedTimes == {2, 2 * querytime_bucket_count + 1}

StoreRows(zoom, x, y) ==
    CASE <<x, y>> = <<100, 200>> ->
           << << <<"name", PyStr("A")>>, <<"id", PyInt(1)>> >>,
              << <<"name", PyStr("B")>>, <<"id", PyInt(2)>> >> >>
      [] <<x, y>> = <<200, 100>> ->
           << << <<"id", PyInt(1)>>, <<"name", PyStr("A")>> >>,
              << <<"id", PyInt(2)>>, <<"name", PyStr("B")>> >> >>
      [] OTHER -> << >>

\* the rows gentile_async is given on its own: up to MaxRows rows with the
\* columns id and name in either column order
FeatureIds == {1, 2, 10}
FeatureNames == {"A", "B"}
RowSet ==
    UNION { { << <<"id", PyInt(i)>>, <<"name", PyStr(n)>> >>,
              << <<"name", PyStr(n)>>, <<"id", PyInt(i)>> >> } :
            <<i, n>> \in FeatureIds \X FeatureNames }
RowSeqs == UNION { [1..n -> RowSet] : n \in 0..MaxRows }

(***************************************************************************)
(* State.                                                                  *)
(***************************************************************************)
VARIABLES
    counters,    \* value of each StatCounter
    histograms,  \* each StatHistogram
    pool,        \* request.app['pool']: its free and used connections
    reqs,        \* the requests received so far, in arrival order
    hist,        \* HistSpec: one StatHistogram on its own
    samples,     \* HistSpec: the values sampled into hist, in order
    enc_rows,    \* EncSpec: the rows fetchall() returned to gentile_async
    enc_tile     \* EncSpec: what gentile_async returned for them, or None

srvvars == <<counters, histograms, pool, reqs>>
histvars == <<hist, samples>>
encvars == <<enc_rows, enc_tile>>
vars == <<counters, histograms, pool, reqs, hist, samples, enc_rows, enc_tile>>

ConnIds == 1..PoolMaxSize

\* a request whose handler was entered and now awaits pool.acquire()
NewRequest(kind, zoom, x, y) ==
    [ kind |-> kind, zoom |-> zoom, x |-> x, y |-> y,
      pc |-> "acquire",   \* the await the handler is suspended at, or "done"
      conn |-> 0,         \* the pooled connection it holds, 0 for none
      stmts |-> << >>,    \* the statements it passed to cursor.execute
      outcome |-> "",     \* what leaves tile_handler_on_conn: "ok" or the exception
      status |-> 0,       \* the HTTP status of the response
      body |-> None ]     \* the body of the response

Requests == DOMAIN reqs

\* main(): tilesrv_start.inc() before the application runs
SrvInit ==
    /\ counters = Inc(NewCounters, "tilesrv_start")
    /\ histograms =
         [ m \in Range(HistogramVars) |->
             IF m = "tile_querytime"
             THEN NewHistogram(querytime_interval, querytime_bucket_count, 10)
             ELSE NewHistogram(tile_size_interval, tile_size_bucket_count, 1) ]
    /\ pool = [free |-> {}, used |-> {}]
    /\ reqs = << >>

Init ==
    /\ SrvInit
    /\ hist = NewHistogram(1, 1, 1)
    /\ samples = << >>
    /\ enc_rows = << >>
    /\ enc_tile = None

(***************************************************************************)
(* error_middleware and the except clause of tile_handler_pooling.         *)
(***************************************************************************)
IsHTTPException(outcome) == outcome \in {"HTTPNotFound", "HTTPServiceUnavailable"}

HTTPStatus(outcome) ==
    CASE outcome = "HTTPNotFound" -> 404
      [] outcome = "HTTPServiceUnavailable" -> 503

\* mutant: a bare except ahead of the HTTPException clause wraps every failure
ErrorMiddlewareWrapsAll(outcome) ==
    IF outcome = "ok" THEN 200 ELSE 500

\* error_middleware: the status the client receives
ErrorMiddleware(outcome) ==
    IF outcome = "ok" THEN 200
    ELSE IF IsHTTPException(outcome) THEN HTTPStatus(outcome)
    ELSE 500

\* tile_handler_pooling: except Exception: tile_exception.inc(); raise
\* mutant: the except clause lets HTTP exceptions pass uncounted
HandlerExceptSkipsHTTP(c, outcome) ==
    IF outcome = "ok" \/ IsHTTPException(outcome) THEN c ELSE Inc(c, "tile_exception")

HandlerExcept(c, outcome) ==
    IF outcome = "ok" THEN c ELSE Inc(c, "tile_exception")

\* the handler is left with `outcome` and the response is sent
Finish(req, outcome, body) ==
    [req EXCEPT !.pc = "done", !.outcome = outcome,
                !.status = ErrorMiddleware(outcome),
                !.body = IF outcome = "ok" THEN body ELSE None]

(***************************************************************************)
(* Arrival of a tile request: tile_handler_pooling runs to                 *)
(* request.app['pool'].acquire().                                          *)
(***************************************************************************)
TileRequest(zoom, x, y) ==
    /\ Len(reqs) < MaxRequests
    /\ reqs' = Append(reqs, NewRequest("tile", zoom, x, y))
    /\ UNCHANGED <<counters, histograms, pool>>

(***************************************************************************)
(* pool.acquire() completes.  A free connection is handed out; with none   *)
(* free and room in the pool a connection to the store is opened, which    *)
(* the store may refuse; with the pool exhausted the handler keeps         *)
(* waiting.  On success the handler runs to the await of conn.cursor().    *)
(***************************************************************************)
PoolAcquire(p, c) == [free |-> p.free \ {c}, used |-> p.used \cup {c}]

\* mutant: the connection is not handed back
PoolReleaseLeaks(p, c) == p

PoolRelease(p, c) == [free |-> p.free \cup {c}, used |-> p.used \ {c}]

Acquire(r, store_ok) ==
    /\ reqs[r].pc = "acquire"
    /\ IF pool.free # {}
       THEN LET c == CHOOSE c \in pool.free : \A d \in pool.free : c <= d
            IN  /\ store_ok
                /\ pool' = PoolAcquire(pool, c)
                /\ reqs' = [reqs EXCEPT ![r].pc = "cursor", ![r].conn = c]
                /\ UNCHANGED counters
       ELSE /\ Cardinality(pool.used) < PoolMaxSize
            /\ IF store_ok
               THEN LET c == CHOOSE c \in ConnIds \ pool.used :
                                 \A d \in ConnIds \ pool.used : c <= d
                    IN  /\ pool' = PoolAcquire(pool, c)
                        /\ reqs' = [reqs EXCEPT ![r].pc = "cursor", ![r].conn = c]
                        /\ UNCHANGED counters
               ELSE /\ counters' = HandlerExcept(counters, "psycopg2.Error")
                    /\ reqs' = [reqs EXCEPT ![r] = Finish(@, "psycopg2.Error", None)]
                    /\ UNCHANGED pool
    /\ UNCHANGED histograms

(***************************************************************************)
(* tile_handler_on_conn: conn.cursor() completes.  With a cursor the       *)
(* handler checks the zoom, parses x and y and enters gentile_async up to  *)
(* the await of cursor.execute(timeout_set).  An exception leaves both     *)
(* `async with` blocks and the handler awaits the release of conn.         *)
(***************************************************************************)
\* mutant: an exception leaves the handler past the async-with blocks, with
\* the connection still taken from the pool
RaiseKeepsConnection(req, exc) ==
    [req EXCEPT !.pc = "done", !.outcome = exc, !.status = ErrorMiddleware(exc)]

Raise(req, exc) == [req EXCEPT !.pc = "release", !.outcome = exc]

\* mutant: the tile query is issued without the timeout statement before it
OpenCursorSkipsTimeout(r, store_ok) ==
    /\ reqs[r].pc = "cursor"
    /\ reqs' = [reqs EXCEPT ![r] =
                  IF ~store_ok THEN Raise(@, "psycopg2.Error")
                  ELSE IF @.zoom # zoom_default THEN Raise(@, "HTTPNotFound")
                  ELSE [@ EXCEPT !.pc = "query",
                                 !.stmts = Append(@, tile_query)]]
    /\ UNCHANGED <<counters, histograms, pool>>

OpenCursor(r, store_ok) ==
    /\ reqs[r].pc = "cursor"
    /\ reqs' = [reqs EXCEPT ![r] =
                  IF ~store_ok THEN Raise(@, "psycopg2.Error")
                  ELSE IF @.zoom # zoom_default THEN Raise(@, "HTTPNotFound")
                  ELSE [@ EXCEPT !.pc = "timeout",
                                 !.stmts = Append(@, timeout_set)]]
    /\ UNCHANGED <<counters, histograms, pool>>

(***************************************************************************)
(* gentile_async: cursor.execute(timeout_set) completes; the handler       *)
(* awaits cursor.execute(tile_query, ...).                                 *)
(***************************************************************************)
ExecTimeout(r, store_ok) ==
    /\ reqs[r].pc = "timeout"
    /\ reqs' = [reqs EXCEPT ![r] =
                  IF ~store_ok THEN Raise(@, "psycopg2.Error")
                  ELSE [@ EXCEPT !.pc = "query", !.stmts = Append(@, tile_query)]]
    /\ UNCHANGED <<counters, histograms, pool>>

(***************************************************************************)
(* gentile_async: cursor.execute(tile_query, ...) completes; the handler   *)
(* awaits cursor.fetchall().                                               *)
(***************************************************************************)
ExecQuery(r, store_ok) ==
    /\ reqs[r].pc = "query"
    /\ reqs' = [reqs EXCEPT ![r] =
                  IF ~store_ok THEN Raise(@, "psycopg2.Error")
                  ELSE [@ EXCEPT !.pc = "fetch"]]
    /\ UNCHANGED <<counters, histograms, pool>>

(***************************************************************************)
(* gentile_async: cursor.fetchall() completes with the rows.  The rest of  *)
(* gentile_async and of tile_handler_on_conn runs without suspension:      *)
(* sample the query time, encode, sample the size, count the tile as       *)
(* served (or, for a None tile, as a query failure), then await the        *)
(* release of conn.                                                        *)
(***************************************************************************)
\* the object gentile_async encodes
TileObject(value) ==
    PyDict(<< <<"type", PyStr("FeatureCollection")>>,
              <<"features", PyList([i \in 1..Len(value) |-> PyDict(value[i])])>> >>)

\* mutant: gentile_async gives None for an empty result
GenTileNoneWhenEmpty(value, elapsed, hs) ==
    IF value = << >>
    THEN [ tile |-> None,
           hist |-> [hs EXCEPT !["tile_querytime"] = HistSample(@, elapsed)] ]
    ELSE [ tile |-> PyStr(JsonDumps(TileObject(value))),
           hist |-> [hs EXCEPT !["tile_querytime"] = HistSample(@, elapsed),
                               !["tile_size"] =
                                  HistSample(@, Len(JsonDumps(TileObject(value))))] ]

\* gentile_async from the rows on (gather_metrics is True): the tile it
\* returns and the histograms it leaves
\* mutant: the size of the tile is not sampled
GenTileSizeUnsampled(value, elapsed, hs) ==
    [ tile |-> PyStr(JsonDumps(TileObject(value))),
      hist |-> [hs EXCEPT !["tile_querytime"] = HistSample(@, elapsed)] ]

GenTile(value, elapsed, hs) ==
    LET tile == JsonDumps(TileObject(value))
    IN  [ tile |-> PyStr(tile),
          hist |-> [hs EXCEPT !["tile_querytime"] = HistSample(@, elapsed),
                              !["tile_size"] = HistSample(@, Len(tile))] ]

\* tile_handler_on_conn after gentile_async returned tile_data
OnTileData(req, tile_data) ==
    IF tile_data = None
    THEN Raise(req, "HTTPServiceUnavailable")
    ELSE [req EXCEPT !.pc = "release", !.outcome = "ok", !.body = tile_data]

\* mutant: a served tile is not counted
CountTileDataForgetsServed(c, tile_data) ==
    IF tile_data = None THEN Inc(c, "tile_queryfail") ELSE c

CountTileData(c, tile_data) ==
    IF tile_data = None THEN Inc(c, "tile_queryfail") ELSE Inc(c, "tile_served")

\* mutant: the rows are read through a cursor shared by all requests, which
\* holds the result of the query issued last
FetchSharedCursor(r, store_ok, elapsed) ==
    /\ reqs[r].pc = "fetch"
    /\ IF ~store_ok
       THEN /\ reqs' = [reqs EXCEPT ![r] = Raise(@, "psycopg2.Error")]
            /\ UNCHANGED <<counters, histograms>>
       ELSE LET last == reqs[Len(reqs)]
                g == GenTile(StoreRows(last.zoom, last.x, last.y),
                             elapsed, histograms)
            IN  /\ histograms' = g.hist
                /\ reqs' = [reqs EXCEPT ![r] = OnTileData(@, g.tile)]
                /\ counters' = CountTileData(counters, g.tile)
    /\ UNCHANGED pool

\* mutant: gentile_async swallows the psycopg2.Error and returns None
FetchNoneOnError(r, store_ok, elapsed) ==
    /\ reqs[r].pc = "fetch"
    /\ LET g == IF store_ok
                THEN GenTile(StoreRows(reqs[r].zoom, reqs[r].x, reqs[r].y),
                             elapsed, histograms)
                ELSE [tile |-> None, hist |-> histograms]
       IN  /\ histograms' = g.hist
           /\ reqs' = [reqs EXCEPT ![r] = OnTileData(@, g.tile)]
           /\ counters' = CountTileData(counters, g.tile)
    /\ UNCHANGED pool

Fetch(r, store_ok, elapsed) ==
    /\ reqs[r].pc = "fetch"
    /\ IF ~store_ok
       THEN /\ reqs' = [reqs EXCEPT ![r] = Raise(@, "psycopg2.Error")]
            /\ UNCHANGED <<counters, histograms>>
       ELSE LET g == GenTile(StoreRows(reqs[r].zoom, reqs[r].x, reqs[r].y),
                             elapsed, histograms)
            IN  /\ histograms' = g.hist
                /\ reqs' = [reqs EXCEPT ![r] = OnTileData(@, g.tile)]
                /\ counters' = CountTileData(counters, g.tile)
    /\ UNCHANGED pool

(***************************************************************************)
(* tile_handler_pooling: the `async with` of pool.acquire() has released   *)
(* conn; an exception is counted and re-raised, and error_middleware       *)
(* turns what leaves the handler into the response.                        *)
(***************************************************************************)
Release(r) ==
    /\ reqs[r].pc = "release"
    /\ pool' = PoolRelease(pool, reqs[r].conn)
    /\ counters' = HandlerExcept(counters, reqs[r].outcome)
    /\ reqs' = [reqs EXCEPT ![r] = Finish([@ EXCEPT !.conn = 0], @.outcome, @.body)]
    /\ UNCHANGED histograms

(***************************************************************************)
(* alive_handler                                                           *)
(***************************************************************************)
\* mutant: the probe borrows a pooled connection to look at the store
AliveRequestOnConn ==
    /\ Len(reqs) < MaxRequests
    /\ pool.free # {} \/ Cardinality(pool.used) < PoolMaxSize
    /\ counters' = Inc(counters, "tilesrv_aliveprobe")
    /\ reqs' = Append(reqs, [NewRequest("alive", 0, 0, 0) EXCEPT
                               !.pc = "done", !.outcome = "ok",
                               !.status = ErrorMiddleware("ok")])
    /\ UNCHANGED <<histograms, pool>>

AliveRequest ==
    /\ Len(reqs) < MaxRequests
    /\ counters' = Inc(counters, "tilesrv_aliveprobe")
    /\ reqs' = Append(reqs, [NewRequest("alive", 0, 0, 0) EXCEPT
                               !.pc = "done", !.outcome = "ok",
                               !.status = ErrorMiddleware("ok")])
    /\ UNCHANGED <<histograms, pool>>

(***************************************************************************)
(* metrics_to_string and metrics_handler.  The body is the text as the     *)
(* sequence of its lines.                                                  *)
(***************************************************************************)
RECURSIVE Concat(_)
Concat(seqs) == IF seqs = << >> THEN << >> ELSE Head(seqs) \o Concat(Tail(seqs))

metrics_to_string(c, h) ==
    Concat([ i \in 1..Len(metrics) |->
               IF metrics[i] \in DOMAIN c
               THEN CounterReport(metrics[i], c[metrics[i]])
               ELSE HistogramReport(metrics[i], h[metrics[i]]) ])

\* mutant: the report is built before the scrape is counted
MetricsRequestCountsLate ==
    /\ Len(reqs) < MaxRequests
    /\ counters' = Inc(counters, "tilesrv_metrics_scraped")
    /\ reqs' = Append(reqs, [NewRequest("metrics", 0, 0, 0) EXCEPT
                               !.pc = "done", !.outcome = "ok",
                               !.status = ErrorMiddleware("ok"),
                               !.body = PyLines(metrics_to_string(counters, histograms))])
    /\ UNCHANGED <<histograms, pool>>

\* mutant: a scrape resets the counters it has just reported
MetricsRequestResets ==
    /\ Len(reqs) < MaxRequests
    /\ counters' = NewCounters
    /\ reqs' = Append(reqs, [NewRequest("metrics", 0, 0, 0) EXCEPT
                               !.pc = "done", !.outcome = "ok",
                               !.status = ErrorMiddleware("ok"),
                               !.body = PyLines(metrics_to_string(
                                            Inc(counters, "tilesrv_metrics_scraped"),
                                            histograms))])
    /\ UNCHANGED <<histograms, pool>>

MetricsRequest ==
    /\ Len(reqs) < MaxRequests
    /\ counters' = Inc(counters, "tilesrv_metrics_scraped")
    /\ reqs' = Append(reqs, [NewRequest("metrics", 0, 0, 0) EXCEPT
                               !.pc = "done", !.outcome = "ok",
                               !.status = ErrorMiddleware("ok"),
                               !.body = PyLines(metrics_to_string(counters', histograms))])
    /\ UNCHANGED <<histograms, pool>>

Next ==
    \/ \E zoom \in Zooms, xy \in TileCoords :
         TileRequest(zoom, xy[1], xy[2]) /\ UNCHANGED <<histvars, encvars>>
    \/ \E r \in Requests, store_ok \in BOOLEAN :
         Acquire(r, store_ok) /\ UNCHANGED <<histvars, encvars>>
    \/ \E r \in Requests, store_ok \in BOOLEAN :
         OpenCursor(r, store_ok) /\ UNCHANGED <<histvars, encvars>>
    \/ \E r \in Requests, store_ok \in BOOLEAN :
         ExecTimeout(r, store_ok) /\ UNCHANGED <<histvars, encvars>>
    \/ \E r \in Requests, store_ok \in BOOLEAN :
         ExecQuery(r, store_ok) /\ UNCHANGED <<histvars, encvars>>
    \/ \E r \in Requests, store_ok \in BOOLEAN, elapsed \in ElapsedTimes :
         Fetch(r, store_ok, elapsed) /\ UNCHANGED <<histvars, encvars>>
    \/ \E r \in Requests : Release(r) /\ UNCHANGED <<histvars, encvars>>
    \/ AliveRequest /\ UNCHANGED <<histvars, encvars>>
    \/ MetricsRequest /\ UNCHANGED <<histvars, encvars>>

\* the server: requests arrive and their handlers interleave at their awaits
Spec == Init /\ [][Next]_vars

(***************************************************************************)
(* HistSpec: a StatHistogram of any small bucket width and bucket count,   *)
(* and any short sequence of sample(v) calls with integers v >= 0, up to   *)
(* one past max_value.                                                     *)
(***************************************************************************)
\* one step of the handler of request r: the await it is suspended at
\* returns or raises
HandlerStep(r) ==
    /\ r \in Requests
    /\ \/ \E store_ok \in BOOLEAN : Acquire(r, store_ok)
       \/ \E store_ok \in BOOLEAN : OpenCursor(r, store_ok)
       \/ \E store_ok \in BOOLEAN : ExecTimeout(r, store_ok)
       \/ \E store_ok \in BOOLEAN : ExecQuery(r, store_ok)
       \/ \E store_ok \in BOOLEAN, elapsed \in ElapsedTimes : Fetch(r, store_ok, elapsed)
       \/ Release(r)
    /\ UNCHANGED <<histvars, encvars>>

\* the server on an event loop that resumes every handler whose await can
\* complete, with a store that answers or fails every operation
FairSpec == Spec /\ \A r \in 1..MaxRequests : WF_vars(HandlerStep(r))

SampleValues == 0..(MaxInterval * MaxBuckets + 1)

HistInit ==
    /\ SrvInit
    /\ \E interval \in 1..MaxInterval, bucket_count \in 1..MaxBuckets :
         hist = NewHistogram(interval, bucket_count, 1)
    /\ samples = << >>
    /\ enc_rows = << >>
    /\ enc_tile = None

Sample(value) ==
    /\ Len(samples) < MaxSamples
    /\ hist' = HistSample(hist, value)
    /\ samples' = Append(samples, value)
    /\ UNCHANGED <<srvvars, encvars>>

HistNext == \E value \in SampleValues : Sample(value)

HistSpec == HistInit /\ [][HistNext]_vars

(***************************************************************************)
(* gentile_async on its own, from fetchall()'s result on: the rows are     *)
(* drawn from RowSeqs and encoded up to MaxEncodes times.                  *)
(***************************************************************************)
EncInit ==
    /\ SrvInit
    /\ hist = NewHistogram(1, 1, 1)
    /\ samples = << >>
    /\ enc_rows \in RowSeqs
    /\ enc_tile = None

Encode(elapsed) ==
    /\ histograms["tile_size"].count < MaxEncodes
    /\ LET g == GenTile(enc_rows, elapsed, histograms)
       IN  /\ enc_tile' = g.tile
           /\ histograms' = g.hist
    /\ UNCHANGED <<counters, pool, reqs, enc_rows, histvars>>

EncNext == \E elapsed \in ElapsedTimes : Encode(elapsed)

EncSpec == EncInit /\ [][EncNext]_vars

(***************************************************************************)
(* Properties.                                                             *)
(***************************************************************************)
IsTile(q) == q.kind = "tile"
Done(q) == q.pc = "done"
Supported(q) == IsTile(q) /\ q.zoom = zoom_default
Unsupported(q) == IsTile(q) /\ q.zoom # zoom_default

\* the store failed the timeout statement, the tile query or the row fetch of q
QueryFailed(q) == q.outcome = "psycopg2.Error" /\ q.stmts # << >>

\* the timeout statement, the tile query and the row fetch of q all succeeded
QuerySucceeded(q) ==
    /\ q.stmts = <<timeout_set, tile_query>>
    /\ q.pc \in {"release", "done"}
    /\ q.outcome # "psycopg2.Error"

\* the step is the one in which request r is answered
Answers(r) == ~Done(reqs[r]) /\ Done(reqs'[r])

\* the requests that arrive in the step
Arriving == DOMAIN reqs' \ DOMAIN reqs

\* what Python's json.dumps(..., sort_keys=True) prints for the tiles of the store
EmptyDocument == "{\"features\": [], \"type\": \"FeatureCollection\"}"
TwoFeatureDocument ==
    "{\"features\": [{\"id\": 1, \"name\": \"A\"}, {\"id\": 2, \"name\": \"B\"}], "
      \o "\"type\": \"FeatureCollection\"}"
ExpectedDocument(x, y) ==
    IF <<x, y>> \in {<<100, 200>>, <<200, 100>>} THEN TwoFeatureDocument
    ELSE EmptyDocument

(***************************************************************************)
(* C1: when the store fails the timeout statement, the tile query or the   *)
(* row fetch of a tile request for the supported zoom, the step that       *)
(* meets the failure adds exactly 1 to tile_queryfail and leaves           *)
(* tile_exception alone, and the step that answers the request answers     *)
(* 503 and changes neither counter.                                        *)
(***************************************************************************)
C1_StoreFailureAnswered503 ==
    [][\A r \in DOMAIN reqs :
         /\ (Supported(reqs[r]) /\ ~QueryFailed(reqs[r]) /\ QueryFailed(reqs'[r])) =>
              /\ counters'.tile_queryfail = counters.tile_queryfail + 1
              /\ counters'.tile_exception = counters.tile_exception
         /\ (Supported(reqs[r]) /\ QueryFailed(reqs[r]) /\ Answers(r)) =>
              /\ reqs'[r].status = 503
              /\ counters'.tile_queryfail = counters.tile_queryfail
              /\ counters'.tile_exception = counters.tile_exception]_vars

(***************************************************************************)
(* C2: a tile request whose zoom is not 16 never has the timeout           *)
(* statement or the tile query executed, and once answered its status is   *)
(* 404, whatever the store does.                                           *)
(***************************************************************************)
C2_UnsupportedZoomIs404 ==
    \A r \in DOMAIN reqs :
        Unsupported(reqs[r]) =>
            /\ reqs[r].stmts = << >>
            /\ Done(reqs[r]) => reqs[r].status = 404

(***************************************************************************)
(* C3: no step of a tile request that is rejected with 404 for its zoom    *)
(* (its arrival, its waits, its answer) changes a counter or a histogram.  *)
(***************************************************************************)
C3_RejectedZoomChangesNoMetric ==
    [][\A r \in DOMAIN reqs' :
         ( /\ Unsupported(reqs'[r])
           /\ r \in DOMAIN reqs => reqs[r] # reqs'[r]
           /\ reqs'[r].status \in {0, 404} ) =>
             /\ counters' = counters
             /\ histograms' = histograms]_vars

(***************************************************************************)
(* C4: a tile request for the supported zoom whose query succeeds gets     *)
(* the encoded document of its tile as body in the step that receives      *)
(* the rows, which adds exactly 1 to tile_served and leaves                *)
(* tile_exception and tile_queryfail alone; it is answered 200 with that   *)
(* body, by a step that changes none of the three counters; and            *)
(* tile_served changes only in a step in which the rows of such a request  *)
(* arrive, and then by 1.                                                  *)
(***************************************************************************)
C4_SuccessIsServed ==
    /\ [](\A r \in DOMAIN reqs :
            (Supported(reqs[r]) /\ QuerySucceeded(reqs[r])) =>
               /\ reqs[r].body = PyStr(ExpectedDocument(reqs[r].x, reqs[r].y))
               /\ Done(reqs[r]) => reqs[r].status = 200)
    /\ [][/\ \A r \in DOMAIN reqs :
               /\ (Supported(reqs[r]) /\ ~QuerySucceeded(reqs[r])
                     /\ QuerySucceeded(reqs'[r])) =>
                    /\ counters'.tile_served = counters.tile_served + 1
                    /\ counters'.tile_exception = counters.tile_exception
                    /\ counters'.tile_queryfail = counters.tile_queryfail
               /\ (Supported(reqs[r]) /\ QuerySucceeded(reqs[r]) /\ Answers(r)) =>
                    /\ reqs'[r].status = 200
                    /\ reqs'[r].body = reqs[r].body
                    /\ counters'.tile_served = counters.tile_served
                    /\ counters'.tile_exception = counters.tile_exception
                    /\ counters'.tile_queryfail = counters.tile_queryfail
          /\ counters'.tile_served # counters.tile_served =>
               /\ counters'.tile_served = counters.tile_served + 1
               /\ \E r \in DOMAIN reqs :
                    /\ Supported(reqs[r])
                    /\ ~QuerySucceeded(reqs[r])
                    /\ QuerySucceeded(reqs'[r])]_vars

\* a served tile with two features has been answered
C4_Witness ==
    \E r \in DOMAIN reqs :
        /\ Supported(reqs[r]) /\ Done(reqs[r]) /\ QuerySucceeded(reqs[r])
        /\ reqs[r].status = 200
        /\ reqs[r].body = PyStr(TwoFeatureDocument)
        /\ counters.tile_served = 1

(***************************************************************************)
(* C5: when a tile request is answered after a failure that is not an      *)
(* HTTP-status failure, the answer is 500 and tile_exception grows by      *)
(* exactly 1 in that step; a failure that is an HTTP-status failure is     *)
(* answered with its own status (404 for HTTPNotFound, 503 for             *)
(* HTTPServiceUnavailable), never 500.                                     *)
(***************************************************************************)
C5_UnexpectedIs500 ==
    [][\A r \in DOMAIN reqs :
         (IsTile(reqs[r]) /\ Answers(r)) =>
            /\ reqs'[r].outcome \notin {"ok", "HTTPNotFound", "HTTPServiceUnavailable"} =>
                 /\ reqs'[r].status = 500
                 /\ counters'.tile_exception = counters.tile_exception + 1
            /\ reqs'[r].outcome = "HTTPNotFound" => reqs'[r].status = 404
            /\ reqs'[r].outcome = "HTTPServiceUnavailable" => reqs'[r].status = 503]_vars

\* one request was answered 500 after a store failure, another 404
C5_Witness ==
    /\ \E r \in DOMAIN reqs :
         /\ Done(reqs[r]) /\ reqs[r].outcome = "psycopg2.Error"
         /\ reqs[r].status = 500
    /\ \E r \in DOMAIN reqs :
         /\ Done(reqs[r]) /\ reqs[r].outcome = "HTTPNotFound"
         /\ reqs[r].status = 404
    /\ counters.tile_exception = 2

(***************************************************************************)
(* C6: a tile request for the supported zoom whose query returns no rows   *)
(* is answered 200 with the body                                           *)
(* {"features": [], "type": "FeatureCollection"}; the step that receives   *)
(* the empty result adds 1 to tile_served and leaves tile_queryfail        *)
(* alone.                                                                  *)
(***************************************************************************)
C6_EmptyResultIsServed ==
    /\ [](\A r \in DOMAIN reqs :
            ( /\ Supported(reqs[r]) /\ QuerySucceeded(reqs[r])
              /\ StoreRows(reqs[r].zoom, reqs[r].x, reqs[r].y) = << >> ) =>
                /\ reqs[r].outcome \notin {"HTTPServiceUnavailable"}
                /\ Done(reqs[r]) =>
                     /\ reqs[r].status = 200
                     /\ reqs[r].body = PyStr(EmptyDocument))
    /\ [][\A r \in DOMAIN reqs :
            ( /\ Supported(reqs[r])
              /\ StoreRows(reqs[r].zoom, reqs[r].x, reqs[r].y) = << >>
              /\ reqs[r].pc = "fetch" /\ reqs'[r].pc # "fetch"
              /\ reqs'[r].outcome # "psycopg2.Error" ) =>
                /\ counters'.tile_served = counters.tile_served + 1
                /\ counters'.tile_queryfail = counters.tile_queryfail]_vars

\* an empty tile has been answered
C6_Witness ==
    \E r \in DOMAIN reqs :
        /\ Supported(reqs[r]) /\ Done(reqs[r]) /\ QuerySucceeded(reqs[r])
        /\ StoreRows(reqs[r].zoom, reqs[r].x, reqs[r].y) = << >>
        /\ reqs[r].status = 200
        /\ counters.tile_served = 1 /\ counters.tile_queryfail = 0

(***************************************************************************)
(* C7: no answered request holds a connection: the connections in use      *)
(* are exactly those held by requests still in their handler, no two of    *)
(* which hold the same one, and a free connection is held by nobody.       *)
(***************************************************************************)
Holders == {r \in DOMAIN reqs : reqs[r].conn # 0}

C7_ConnectionsReleased ==
    /\ \A r \in DOMAIN reqs : Done(reqs[r]) => r \notin Holders
    /\ pool.used = {reqs[r].conn : r \in Holders}
    /\ \A r1, r2 \in Holders : reqs[r1].conn = reqs[r2].conn => r1 = r2
    /\ pool.free \cap pool.used = {}

\* a served request and one that failed holding a connection are both answered
C7_Witness ==
    /\ \E r \in DOMAIN reqs : Done(reqs[r]) /\ reqs[r].status = 200 /\ IsTile(reqs[r])
    /\ \E r \in DOMAIN reqs :
         /\ Done(reqs[r])
         /\ \/ QueryFailed(reqs[r])
            \/ reqs[r].outcome = "HTTPNotFound"
    /\ pool.used = {}
    /\ pool.free # {}

(***************************************************************************)
(* C8: in every state a liveness probe can be answered (while the model    *)
(* still admits a request), and the step that answers one answers 200,     *)
(* adds exactly 1 to tilesrv_aliveprobe, leaves the pool as it is and      *)
(* changes no other request, so it acquires no connection and executes     *)
(* no statement.                                                           *)
(***************************************************************************)
C8_AliveAlwaysAnswered ==
    /\ [](Len(reqs) < MaxRequests => ENABLED AliveRequest)
    /\ [][\A r \in Arriving :
            reqs'[r].kind = "alive" =>
               /\ reqs' = Append(reqs, reqs'[r])
               /\ Done(reqs'[r])
               /\ reqs'[r].status = 200
               /\ reqs'[r].conn = 0
               /\ reqs'[r].stmts = << >>
               /\ pool' = pool
               /\ counters'.tilesrv_aliveprobe = counters.tilesrv_aliveprobe + 1]_vars

\* a probe was answered while a request that met a store failure holds the
\* last connection of the pool
C8_Witness ==
    /\ Cardinality(pool.used) = PoolMaxSize
    /\ \E r \in DOMAIN reqs : ~Done(reqs[r]) /\ QueryFailed(reqs[r])
    /\ \E r \in DOMAIN reqs :
         reqs[r].kind = "alive" /\ Done(reqs[r]) /\ reqs[r].status = 200
    /\ counters.tilesrv_aliveprobe = 1

(***************************************************************************)
(* C9: the body of a metrics answer lists the eight metrics in             *)
(* registration order, each counter with its value after the step:        *)
(* tilesrv_metrics_scraped is the number of metrics requests including     *)
(* this one, tilesrv_aliveprobe_count the number of probes so far,         *)
(* tile_served_count the number of tile requests served so far.            *)
(***************************************************************************)
RegisteredNames ==
    <<"tilesrv_metrics_scraped", "tilesrv_aliveprobe_count", "tilesrv_start_count",
      "tile_served_count", "tile_exception_count", "tile_queryfail_count",
      "tile_querytime_seconds", "tile_size">>

\* the line of the report on which metric k starts
ReportStart(k) ==
    IF k <= 7 THEN 3 * (k - 1) + 1
    ELSE 3 * 6 + (2 + querytime_bucket_count + 3) + 1

NumberOf(rs, kind) == Cardinality({q \in DOMAIN rs : rs[q].kind = kind})

C9_ReportListsCurrentValues ==
    [][\A r \in Arriving :
         reqs'[r].kind = "metrics" =>
            LET lines == reqs'[r].body.v
                value(k) == lines[ReportStart(k) + 2]
                expect(k, n) == RegisteredNames[k] \o " " \o ToString(n)
            IN  /\ reqs'[r].status = 200
                /\ Len(lines) = 3 * 6 + (2 + querytime_bucket_count + 3)
                                      + (2 + tile_size_bucket_count + 3)
                /\ \A k \in 1..6 :
                     lines[ReportStart(k) + 1]
                        = "# TYPE " \o RegisteredNames[k] \o " counter"
                /\ \A k \in 7..8 :
                     lines[ReportStart(k) + 1]
                        = "# TYPE " \o RegisteredNames[k] \o " histogram"
                /\ value(1) = expect(1, NumberOf(reqs', "metrics"))
                /\ value(2) = expect(2, NumberOf(reqs, "alive"))
                /\ value(3) = expect(3, 1)
                /\ value(4) = expect(4, Cardinality({q \in DOMAIN reqs :
                                          IsTile(reqs[q]) /\ reqs[q].outcome = "ok"}))
                /\ value(5) = expect(5, counters'.tile_exception)
                /\ value(6) = expect(6, counters'.tile_queryfail)
                /\ lines[ReportStart(8) - 1]
                     = "tile_querytime_seconds_count "
                         \o ToString(histograms'.tile_querytime.count)
                /\ lines[Len(lines)]
                     = "tile_size_count " \o ToString(histograms'.tile_size.count)
                /\ counters'.tilesrv_metrics_scraped
                     = counters.tilesrv_metrics_scraped + 1]_vars

\* a report made after one tile was served
C9_Witness ==
    \E r \in DOMAIN reqs :
        /\ reqs[r].kind = "metrics"
        /\ reqs[r].body.v[12] = "tile_served_count 1"
        /\ reqs[r].body.v[3] = "tilesrv_metrics_scraped 1"

(***************************************************************************)
(* C10: after any sequence of sample(v) calls with v >= 0, bucket i holds  *)
(* the number of samples v with i*interval < v <= (i+1)*interval, for      *)
(* every i in 0..bucket_count-1 (so a sample in no such range is in no     *)
(* bucket).                                                                *)
(***************************************************************************)
C10_BucketsCountTheirRange ==
    \A i \in 0..(hist.bucket_count - 1) :
        Bucket(hist, i)
          = Cardinality({k \in DOMAIN samples :
                           /\ i * hist.interval < samples[k]
                           /\ samples[k] <= (i + 1) * hist.interval})

(***************************************************************************)
(* C11: for every k in 1..bucket_count, sample(k*interval) adds exactly 1  *)
(* to bucket k-1 and leaves every other bucket, bucket k included, as it   *)
(* was.                                                                    *)
(***************************************************************************)
\* the step is sample(v)
Sampled(v) == samples' = Append(samples, v)

\* C11: sample(k*interval) adds 1 to bucket k-1 and 0 to every other bucket
C11_BoundaryFallsInLowerBucket ==
    [][\A k \in 1..hist.bucket_count :
         Sampled(k * hist.interval) =>
            \A i \in 0..(hist.bucket_count - 1) :
                Bucket(hist', i) = Bucket(hist, i) + (IF i = k - 1 THEN 1 ELSE 0)]_vars

\* the boundary between the first two buckets was sampled, and nothing else
C11_Witness ==
    /\ hist.bucket_count >= 2
    /\ samples = <<hist.interval>>
    /\ Bucket(hist, 0) = 1
    /\ Bucket(hist, 1) = 0

(***************************************************************************)
(* C12: every sample(v) adds exactly 1 to count and exactly v to sum; for  *)
(* v > bucket_count*interval no bucket changes.                            *)
(***************************************************************************)
C12_SampleCountsAndSums ==
    [][\A v \in SampleValues :
         Sampled(v) =>
            /\ hist'.count = hist.count + 1
            /\ hist'.sum = hist.sum + v
            /\ v > hist.bucket_count * hist.interval => hist'.buckets = hist.buckets]_vars

\* a value beyond max_value followed a value in range
C12_Witness ==
    /\ Len(samples) = 2
    /\ samples[1] = 1
    /\ samples[2] > hist.bucket_count * hist.interval
    /\ hist.count = 2
    /\ hist.sum = samples[1] + samples[2]
    /\ hist.buckets = [i \in 1..hist.bucket_count |-> IF i = 1 THEN 1 ELSE 0]

(***************************************************************************)
(* C13: across any interleaving of requests no counter ever decreases or   *)
(* is reset; every step leaves a counter as it was or adds exactly 1.      *)
(***************************************************************************)
C13_CountersOnlyStepUp ==
    [][\A m \in Range(CounterVars) :
         counters'[m] \in {counters[m], counters[m] + 1}]_vars

\* one counter was incremented by two different requests
C13_Witness ==
    /\ counters["tile_exception"] = 2
    /\ counters["tilesrv_start"] = 1

(***************************************************************************)
(* C14: the encoded document is a function of the row sequence alone:      *)
(* encoding the same rows again yields the same text, the features appear  *)
(* in the order of the rows, the keys of every feature and of the document *)
(* are written in sorted order, and rows that differ only in the order of  *)
(* their fields encode to the same text.                                   *)
(***************************************************************************)
\* the value a row holds in a column
Field(row, column) == row[CHOOSE i \in DOMAIN row : row[i][1] = column][2].v

\* one feature with its keys in sorted order: id before name
FeatureText(row) ==
    "{\"id\": " \o ToString(Field(row, "id"))
      \o ", \"name\": \"" \o Field(row, "name") \o "\"}"

\* the features of rows i.. in row order
RECURSIVE FeaturesFrom(_, _)
FeaturesFrom(rows, i) ==
    IF i > Len(rows) THEN ""
    ELSE FeatureText(rows[i])
           \o (IF i < Len(rows) THEN ", " ELSE "")
           \o FeaturesFrom(rows, i + 1)

\* the document with features before type
DocumentText(rows) ==
    "{\"features\": [" \o FeaturesFrom(rows, 1) \o "], \"type\": \"FeatureCollection\"}"

\* the row sequences that differ from rows only in the order of fields
Reordered(rows) ==
    { [i \in DOMAIN rows |->
         IF flip[i] THEN [j \in DOMAIN rows[i] |-> rows[i][Len(rows[i]) + 1 - j]]
         ELSE rows[i]] : flip \in [DOMAIN rows -> BOOLEAN] }

\* C14: the text is the reference text of the rows, the same for every
\* reordering of their fields and for every further encoding
C14_EncodingDependsOnRowsOnly ==
    /\ [](enc_tile # None =>
            /\ enc_tile = PyStr(DocumentText(enc_rows))
            /\ \A other \in Reordered(enc_rows) :
                 GenTile(other, 2, histograms).tile = enc_tile)
    /\ [][enc_tile # None => enc_tile' = enc_tile]_vars

\* two rows with different column orders, the larger id first, encoded twice
C14_Witness ==
    /\ Len(enc_rows) = 2
    /\ enc_rows[1][1][1] = "name"
    /\ enc_rows[2][1][1] = "id"
    /\ Field(enc_rows[1], "id") > Field(enc_rows[2], "id")
    /\ histograms["tile_size"].count = 2
    /\ enc_tile # None

(***************************************************************************)
(* C15: no metric update is lost.  Once every handler has finished, each   *)
(* counter equals the number of inc() calls made on it and the count of    *)
(* each histogram equals the number of sample() calls made on it.          *)
(***************************************************************************)
\* the number of requests that satisfy P
HowMany(P(_)) == Cardinality({r \in DOMAIN reqs : P(reqs[r])})

AllFinished == \A r \in DOMAIN reqs : Done(reqs[r])

\* the requests whose handler made the call, by the line that makes it
CalledAliveInc(q) == q.kind = "alive"
CalledScrapedInc(q) == q.kind = "metrics"
CalledServedInc(q) == IsTile(q) /\ q.status = 200
CalledQueryFailInc(q) == IsTile(q) /\ q.outcome = "HTTPServiceUnavailable"
CalledExceptionInc(q) == IsTile(q) /\ q.outcome \notin {"", "ok"}
CalledSample(q) == IsTile(q) /\ QuerySucceeded(q)

HoldsConnection(r) ==
    /\ reqs[r].conn \in pool.used
    /\ \A o \in DOMAIN reqs \ {r} : reqs[o].conn # reqs[r].conn

\* what the order requires of one state
C16_OrderInState ==
    \A r \in DOMAIN reqs : IsTile(reqs[r]) =>
        LET q == reqs[r] IN
        \* statements are issued in the order timeout, query, at most once each
        /\ q.stmts \in {<< >>, <<timeout_set>>, <<timeout_set, tile_query>>}
        \* while the timeout statement runs the query has not been issued
        /\ q.pc = "timeout" => q.stmts = <<timeout_set>>
        /\ q.pc \in {"query", "fetch"} => q.stmts = <<timeout_set, tile_query>>
        \* a statement in progress runs on the connection the request acquired
        /\ q.pc \in {"cursor", "timeout", "query", "fetch", "release"} => HoldsConnection(r)
        \* nothing was issued before the acquisition
        /\ q.pc = "acquire" => q.conn = 0 /\ q.stmts = << >> /\ q.body = None
        \* a document was encoded only after both statements
        /\ q.body # None => q.stmts = <<timeout_set, tile_query>> /\ q.pc \in {"release", "done"}
        \* after the release the request holds nothing and issues nothing
        /\ Done(q) => q.conn = 0

\* C16: the order holds in every state and every step keeps it
C16_StepsInOrder ==
    /\ []C16_OrderInState
    /\ [][\A r \in DOMAIN reqs : IsTile(reqs[r]) =>
            \* a statement is issued on the connection held before and after
            /\ reqs'[r].stmts # reqs[r].stmts =>
                  reqs[r].conn # 0 /\ reqs'[r].conn = reqs[r].conn
            \* the query is issued by the step that completes the timeout
            /\ (reqs'[r].stmts # reqs[r].stmts /\ reqs[r].stmts # << >>) =>
                  reqs[r].pc = "timeout"
            \* the document is encoded by the step that completes fetchall()
            /\ reqs'[r].body # reqs[r].body =>
                  reqs[r].pc = "fetch" /\ reqs'[r].conn = reqs[r].conn
            \* a released connection is not used again by the request
            /\ (reqs[r].conn # 0 /\ reqs'[r].conn = 0) => Done(reqs'[r])
            /\ Done(reqs[r]) => reqs'[r] = reqs[r]]_vars

\* a request went through all five steps
C16_Witness ==
    \E r \in DOMAIN reqs :
        /\ IsTile(reqs[r]) /\ Done(reqs[r])
        /\ reqs[r].stmts = <<timeout_set, tile_query>>
        /\ reqs[r].body = PyStr(TwoFeatureDocument)
        /\ reqs[r].conn = 0
        /\ pool.used = {}

(***************************************************************************)
(* C17: validation precedes pool acquisition.  A request for an            *)
(* unsupported zoom never holds a pooled connection and never waits for    *)
(* one, whether or not a connection is available.                          *)
(***************************************************************************)
C17_UnsupportedZoomNeverAcquires ==
    \A r \in DOMAIN reqs : Unsupported(reqs[r]) =>
        /\ reqs[r].conn = 0
        /\ ~(/\ reqs[r].pc = "acquire"
              /\ pool.free = {}
              /\ Cardinality(pool.used) = PoolMaxSize)

(***************************************************************************)
(* C18: concurrent tile requests are independent.  The status and body of  *)
(* a tile response depend only on the request's own (zoom, x, y) and on    *)
(* whether the store failed the request's own operations, whatever other   *)
(* requests are in flight or were answered.                                *)
(***************************************************************************)
\* the store failed an operation of this request
StoreFailed(q) == q.outcome = "psycopg2.Error"

\* the response as a function of the request's own inputs and store outcome
OwnResponse(zoom, x, y, failed) ==
    IF failed THEN <<500, None>>
    ELSE IF zoom # zoom_default THEN <<404, None>>
    ELSE <<200, PyStr(ExpectedDocument(x, y))>>

Finished200(q) == IsTile(q) /\ Done(q) /\ q.status = 200
FinishedOther(q) == IsTile(q) /\ Done(q) /\ q.status # 200
FinishedTile(q) == IsTile(q) /\ Done(q)
\* counted by tile_served.inc() and suspended in the exit of the async-with blocks
ServedAwaitingRelease(q) == IsTile(q) /\ q.pc = "release" /\ q.outcome = "ok"

\* every tile handler waits at its first suspension point or has finished
NoTileHandlerBetween ==
    \A r \in DOMAIN reqs : IsTile(reqs[r]) => reqs[r].pc \in {"acquire", "done"}

TileInFlight(r) == r \in DOMAIN reqs /\ IsTile(reqs[r])
Waiting(r) == TileInFlight(r) /\ reqs[r].pc = "acquire"
Answered(r) == TileInFlight(r) /\ Done(reqs[r]) /\ reqs[r].status # 0
Holding(r) == TileInFlight(r) /\ reqs[r].conn # 0

\* some handler has not finished, and none of them can take a step
Deadlocked ==
    /\ \E r \in DOMAIN reqs : ~Done(reqs[r])
    /\ \A r \in DOMAIN reqs : ~ENABLED HandlerStep(r)

\* C21: every tile request is answered, once, and gives its connection back
C21_EveryTileRequestAnswered ==
    \* whatever has been received, a state follows in which all of it is
    \* answered and released: no request waits or holds for ever
    /\ []<>(\A r \in DOMAIN reqs : TileInFlight(r) => Answered(r) /\ ~Holding(r))
    /\ [](/\ ~Deadlocked
          \* a waiting handler holds no connection: nobody waits for a second one
          /\ \A r \in DOMAIN reqs : Waiting(r) => ~Holding(r)
          \* the connections in use are those of the holders, one each
          /\ Cardinality(pool.used) = Cardinality(Holders)
          /\ Cardinality(pool.used) <= PoolMaxSize)
    /\ [][\A r \in DOMAIN reqs : Answered(r) => reqs'[r] = reqs[r]]_vars

\* the pool is exhausted: one handler waits for a connection while another,
\* whose rows have arrived, is about to hand its connection back
C21_Witness ==
    /\ Cardinality(pool.used) = PoolMaxSize
    /\ pool.free = {}
    /\ \E r \in DOMAIN reqs : Waiting(r)
    /\ \E r \in DOMAIN reqs : Holding(r) /\ reqs[r].pc = "release"

====
